---- MODULE Spec2Model ----
(***************************************************************************)
(* service_sender: a dispatch loop (sender thread) and a response loop     *)
(* (receiver thread) that share the awaiting-requests storage.             *)
(* Source: src/rust-impl/impl/src/bin/service_sender.rs                    *)
(*                                                                         *)
(* Time is a discrete clock `now` in seconds; Instant::now() reads it.     *)
(* Every closure passed to the storage's read/write runs atomically.       *)
(***************************************************************************)
EXTENDS Integers, Sequences, FiniteSets, TLC

\* ---------------------------------------------------------------- bounds
\* Number of correlation IDs Uuid::new_v4() may mint in a run.
MaxUuid == 3
\* Values are 2..MaxValue and multipliers 2..MaxMultiplier (the code draws a u8
\* for each, 0..255).
MaxValue == 3
MaxMultiplier == 2
\* The clock stops at MaxTime.
MaxTime == 6
\* Number of failed encode/send attempts in a run.
MaxFailures == 1
\* Group size (the program's constant lives in the library crate; scaled down).
REQUESTS_COUNT_INSIDE_ONE_GROUP == 1

\* Number of instants at which a scan falls due in the longer run of the clock.
MaxScans == 2

\* ------------------------------------------------------------- constants
RESEND_REQUESTS_EVERY_DURATION == 5

\* Strong count of the Rc behind resend_requests when the scan closure calls
\* Rc::make_mut: the original and resend_requests_clone.
StrongCountInScan == 2

\* The instants at which the clock is read: the start, and every second from the
\* resend interval on.
ClockValues == {0} \cup (RESEND_REQUESTS_EVERY_DURATION..MaxTime)

PacingClockValues ==
    {0, 1} \cup {k * (RESEND_REQUESTS_EVERY_DURATION + 1) : k \in 1..MaxScans}

Uuids == 1..MaxUuid
Values == 2..MaxValue
Multipliers == 2..MaxMultiplier
\* Results a response payload may carry: every product, and 0, which is none.
ResultValues == {v * m : v \in Values, m \in Multipliers} \cup {0}

ValueMultiplicationRequest == "ValueMultiplicationRequest"
ValueMultiplicationResponse == "ValueMultiplicationResponse"
\* What decode_message_kind yields: a kind, or an error.
MessageKinds == {ValueMultiplicationRequest, ValueMultiplicationResponse, "DecodeError"}

\* Payload bytes: <<r>> decodes to the response {result: r}, <<>> does not decode.
Payloads == {<<r>> : r \in ResultValues} \cup {<<>>}

NoMessage == [kind |-> "None", uuid |-> 0, payload |-> <<>>]
NoItem == [uuid |-> 0, value |-> 0, multiplier |-> 0, is_resend |-> FALSE]

VARIABLES
    now,                                       \* Instant::now()
    awaiting_requests_storage,                 \* HashMap<Uuid, RequestData>
    sender_pc,
    last_resend_check,
    should_resend_requests,
    resend_requests,                           \* the VecDeque behind the original Rc
    staged,                                    \* uuids the scan closure put in its deque
    staging_times,                             \* per uuid, the instants the scan staged it
    total_messages_sent_inside_current_group,
    total_sended_messages_count,
    current,                                   \* work item of the last attempt
    minted,                                    \* uuids minted so far
    failures,
    last_attempt,                              \* how the last attempt ended
    sender_progress_lines,                     \* "total sended" lines logged
    outbound,                                  \* requests put on the sender socket
    receiver_pc,
    message,                                   \* message in the receiver's hands
    total_received_messages_count,
    receiver_progress_lines,                   \* "total received" lines logged
    removed,                                   \* uuids the receiver removed
    accepted                                   \* uuids whose response matched

vars == <<now, awaiting_requests_storage, sender_pc, last_resend_check,
          should_resend_requests, resend_requests, staged, staging_times,
          total_messages_sent_inside_current_group, total_sended_messages_count,
          current, minted, failures, last_attempt, sender_progress_lines, outbound,
          receiver_pc, message, total_received_messages_count,
          receiver_progress_lines, removed, accepted>>

sender_vars == <<sender_pc, last_resend_check, should_resend_requests,
                 resend_requests, staged, staging_times,
                 total_messages_sent_inside_current_group,
                 total_sended_messages_count, current, minted, failures,
                 last_attempt, sender_progress_lines, outbound>>

receiver_vars == <<receiver_pc, message, total_received_messages_count,
                   receiver_progress_lines, removed, accepted>>

\* ------------------------------------------------------------ RequestData
\* Mutant: the expected result is the sum.
RequestData_new_Sum(value, multiplier, t) ==
    [value |-> value,
     multiplier |-> multiplier,
     expected_result |-> value + multiplier,
     last_send_attempt_time |-> t]

RequestData_new(value, multiplier, t) ==
    [value |-> value,
     multiplier |-> multiplier,
     expected_result |-> value * multiplier,
     last_send_attempt_time |-> t]

\* Mutant: a record aged exactly the interval is due too.
should_resend_request_AtLeast(request_data, t) ==
    t - request_data.last_send_attempt_time >= RESEND_REQUESTS_EVERY_DURATION

should_resend_request(request_data, t) ==
    t - request_data.last_send_attempt_time > RESEND_REQUESTS_EVERY_DURATION

\* Mutant: the timestamp is left as it was.
update_last_send_attempt_time_Kept(request_data, t) == request_data

update_last_send_attempt_time(request_data, t) ==
    [request_data EXCEPT !.last_send_attempt_time = t]

\* ----------------------------------------------------------------- helpers
\* Rc::make_mut mutates the shared allocation only when the Rc is unique;
\* otherwise it clones the inner value and mutates the clone.
MakeMutInPlace(strong_count) == strong_count = 1

\* Mutant: the same identifier is handed out again.
NewV4_Reused(n) == 1

\* Uuid::new_v4(): an identifier never minted before.
NewV4(n) == n + 1

\* Mutant: the record is stored under another key.
MapInsert_WrongKey(map, key, val) ==
    [k \in DOMAIN map \cup {key + 1} |-> IF k = key + 1 THEN val ELSE map[k]]

\* HashMap::insert
MapInsert(map, key, val) ==
    [k \in DOMAIN map \cup {key} |-> IF k = key THEN val ELSE map[k]]

\* Mutant: the record is left in the map.
MapRemove_Kept(map, key) == map

\* HashMap::remove
\* Mutant: clear() instead of remove(key).
MapRemove_Clear(map, key) == [k \in {} |-> NoItem]

MapRemove(map, key) == [k \in DOMAIN map \ {key} |-> map[k]]

\* The orders in which HashMap::iter_mut may visit the keys S.
Orders(S) ==
    {o \in [1..Cardinality(S) -> S] : \A i, j \in 1..Cardinality(S) : o[i] = o[j] => i = j}

decode_message_payload(payload) ==
    IF Len(payload) = 1 THEN [ok |-> TRUE, result |-> payload[1]]
                        ELSE [ok |-> FALSE, result |-> 0]

\* Mutant: every decoded kind passes the filter.
IsExpectedKind_Any(kind) == kind # "DecodeError"

IsExpectedKind(kind) == kind = ValueMultiplicationResponse

\* Mutant: a result below the expected one is taken as a match.
ResultMatches_Loose(request_data, result) == request_data.expected_result >= result

\* expected_result.cmp(&payload.result) is Ordering::Equal
ResultMatches(request_data, result) == request_data.expected_result = result

\* ------------------------------------------------------------------- Init
Init ==
    /\ now = 0
    /\ awaiting_requests_storage = [u \in {} |-> NoItem]
    /\ sender_pc = "check"
    /\ last_resend_check = 0
    /\ should_resend_requests = FALSE
    /\ resend_requests = << >>
    /\ staged = {}
    /\ staging_times = [u \in Uuids |-> << >>]
    /\ total_messages_sent_inside_current_group = 0
    /\ total_sended_messages_count = 0
    /\ current = NoItem
    /\ minted = 0
    /\ failures = 0
    /\ last_attempt = "none"
    /\ sender_progress_lines = 0
    /\ outbound = << >>
    /\ receiver_pc = "recv"
    /\ message = NoMessage
    /\ total_received_messages_count = 0
    /\ receiver_progress_lines = 0
    /\ removed = {}
    /\ accepted = {}

\* ------------------------------------------------------------------ clock
\* Time passes: the clock moves to the next of the instants at which it is read.
Advance(instants) ==
    /\ \E t \in instants :
          /\ t > now
          /\ \A other \in instants : other > now => t <= other
          /\ now' = t
    /\ UNCHANGED <<awaiting_requests_storage, sender_vars, receiver_vars>>

Tick == Advance(ClockValues)

\* A longer run of the clock, read at the start, one second later, and at each
\* of the first MaxScans instants at which a scan falls due.
TickPacing == Advance(PacingClockValues)

\* ----------------------------------------------------------------- sender
\* Top of 'send_messages: decide whether to scan, make the empty deque.
SenderCheck ==
    /\ sender_pc = "check"
    /\ should_resend_requests' = (now - last_resend_check > RESEND_REQUESTS_EVERY_DURATION)
    /\ resend_requests' = << >>
    /\ staged' = {}
    /\ total_messages_sent_inside_current_group' = 0
    /\ sender_pc' = IF should_resend_requests' THEN "scan" ELSE "send"
    /\ UNCHANGED <<now, awaiting_requests_storage, last_resend_check, staging_times,
                   total_sended_messages_count, current, minted, failures,
                   last_attempt, sender_progress_lines, outbound, receiver_vars>>

\* The write pass over the storage.
SenderScan ==
    /\ sender_pc = "scan"
    /\ last_resend_check' = now
    /\ LET stale == {u \in DOMAIN awaiting_requests_storage :
                        should_resend_request(awaiting_requests_storage[u], now)}
       IN /\ awaiting_requests_storage' =
                [u \in DOMAIN awaiting_requests_storage |->
                    IF u \in stale
                    THEN update_last_send_attempt_time(awaiting_requests_storage[u], now)
                    ELSE awaiting_requests_storage[u]]
          /\ staged' = stale
          /\ staging_times' =
                [u \in Uuids |-> IF u \in stale THEN Append(staging_times[u], now)
                                               ELSE staging_times[u]]
          /\ \E order \in Orders(stale) :
                resend_requests' =
                    IF MakeMutInPlace(StrongCountInScan)
                    THEN resend_requests \o
                         [i \in 1..Cardinality(stale) |->
                            <<order[i], awaiting_requests_storage'[order[i]]>>]
                    ELSE resend_requests
    /\ sender_pc' = "send"
    /\ UNCHANGED <<now, should_resend_requests,
                   total_messages_sent_inside_current_group,
                   total_sended_messages_count, current, minted, failures,
                   last_attempt, sender_progress_lines, outbound, receiver_vars>>

\* Strong count when the group loop calls Rc::make_mut on cloned_resend_requests:
\* the original, the new clone and, when no scan consumed it, resend_requests_clone.
StrongCountInLoop(scanned) == IF scanned THEN 2 ELSE 3

\* What an attempt may end in: encode_message fails, sender.send fails, or sent.
AttemptOutcomes == {"encode_failed", "send_failed", "sent"}

\* Mutant: a failed attempt falls through to the counters instead of `continue`.
SenderSend_FailureCounted ==
    /\ sender_pc = "send"
    /\ total_messages_sent_inside_current_group < REQUESTS_COUNT_INSIDE_ONE_GROUP
    /\ LET in_place == MakeMutInPlace(StrongCountInLoop(should_resend_requests))
           popped == Len(resend_requests) > 0
       IN /\ \E value \in Values, multiplier \in Multipliers :
                current' =
                    IF popped
                    THEN [uuid |-> Head(resend_requests)[1],
                          value |-> Head(resend_requests)[2].value,
                          multiplier |-> Head(resend_requests)[2].multiplier,
                          is_resend |-> TRUE]
                    ELSE [uuid |-> NewV4(minted),
                          value |-> value,
                          multiplier |-> multiplier,
                          is_resend |-> FALSE]
          /\ popped \/ minted < MaxUuid
          /\ minted' = IF popped THEN minted ELSE NewV4(minted)
          /\ resend_requests' =
                IF popped /\ in_place THEN Tail(resend_requests) ELSE resend_requests
    /\ \E outcome \in AttemptOutcomes :
          /\ last_attempt' = outcome
          /\ IF outcome = "sent"
             THEN /\ outbound' = Append(outbound, current')
                  /\ total_messages_sent_inside_current_group' =
                         total_messages_sent_inside_current_group + 1
                  /\ sender_pc' = "insert"
                  /\ UNCHANGED failures
             ELSE /\ failures < MaxFailures
                  /\ failures' = failures + 1
                  /\ total_messages_sent_inside_current_group' =
                         total_messages_sent_inside_current_group + 1
                  /\ sender_pc' = "insert"
                  /\ UNCHANGED outbound
    /\ UNCHANGED <<now, awaiting_requests_storage, last_resend_check,
                   should_resend_requests, staged, staging_times,
                   total_sended_messages_count, sender_progress_lines, receiver_vars>>

\* One pass of 'send_messages_group up to the send: take a work item (pop_front of
\* the deque reached through Rc::make_mut, or a new request), encode, send.
SenderSend ==
    /\ sender_pc = "send"
    /\ total_messages_sent_inside_current_group < REQUESTS_COUNT_INSIDE_ONE_GROUP
    /\ LET in_place == MakeMutInPlace(StrongCountInLoop(should_resend_requests))
           popped == Len(resend_requests) > 0
       IN /\ \E value \in Values, multiplier \in Multipliers :
                current' =
                    IF popped
                    THEN [uuid |-> Head(resend_requests)[1],
                          value |-> Head(resend_requests)[2].value,
                          multiplier |-> Head(resend_requests)[2].multiplier,
                          is_resend |-> TRUE]
                    ELSE [uuid |-> NewV4(minted),
                          value |-> value,
                          multiplier |-> multiplier,
                          is_resend |-> FALSE]
          /\ popped \/ minted < MaxUuid
          /\ minted' = IF popped THEN minted ELSE NewV4(minted)
          /\ resend_requests' =
                IF popped /\ in_place THEN Tail(resend_requests) ELSE resend_requests
    /\ \E outcome \in AttemptOutcomes :
          /\ last_attempt' = outcome
          /\ IF outcome = "sent"
             THEN /\ outbound' = Append(outbound, current')
                  /\ total_messages_sent_inside_current_group' =
                         total_messages_sent_inside_current_group + 1
                  /\ sender_pc' = "insert"
                  /\ UNCHANGED failures
             ELSE /\ failures < MaxFailures
                  /\ failures' = failures + 1
                  /\ sender_pc' = "send"
                  /\ UNCHANGED <<outbound, total_messages_sent_inside_current_group>>
    /\ UNCHANGED <<now, awaiting_requests_storage, last_resend_check,
                   should_resend_requests, staged, staging_times,
                   total_sended_messages_count, sender_progress_lines, receiver_vars>>

\* After a successful send: register a new request, count it, test the loop guard.
SenderInsert ==
    /\ sender_pc = "insert"
    /\ awaiting_requests_storage' =
          IF ~current.is_resend
          THEN MapInsert(awaiting_requests_storage, current.uuid,
                         RequestData_new(current.value, current.multiplier, now))
          ELSE awaiting_requests_storage
    /\ total_sended_messages_count' = total_sended_messages_count + 1
    /\ sender_pc' =
          IF total_messages_sent_inside_current_group < REQUESTS_COUNT_INSIDE_ONE_GROUP
          THEN "send" ELSE "group_end"
    /\ UNCHANGED <<now, last_resend_check, should_resend_requests, resend_requests,
                   staged, staging_times, total_messages_sent_inside_current_group,
                   current, minted,
                   failures, last_attempt, sender_progress_lines, outbound,
                   receiver_vars>>

\* Bottom of 'send_messages: the progress log.
SenderGroupEnd ==
    /\ sender_pc = "group_end"
    /\ sender_progress_lines' =
          IF total_sended_messages_count % REQUESTS_COUNT_INSIDE_ONE_GROUP = 0
          THEN sender_progress_lines + 1
          ELSE sender_progress_lines
    /\ sender_pc' = "check"
    /\ UNCHANGED <<now, awaiting_requests_storage, last_resend_check,
                   should_resend_requests, resend_requests, staged, staging_times,
                   total_messages_sent_inside_current_group,
                   total_sended_messages_count, current, minted, failures,
                   last_attempt, outbound, receiver_vars>>

\* --------------------------------------------------------------- receiver
\* recv_bytes, decode_message_kind, the kind filter, decode_message_uuid.
\* The bus may deliver anything: any kind, any uuid, any payload bytes. A message
\* of another kind, or whose kind does not decode, is dropped with uuid and
\* payload never decoded.
ReceiverRecv ==
    /\ receiver_pc = "recv"
    /\ \E kind \in MessageKinds, uuid \in Uuids, payload \in Payloads :
          IF IsExpectedKind(kind)
          THEN /\ message' = [kind |-> kind, uuid |-> uuid, payload |-> payload]
               /\ receiver_pc' = "lookup"
          ELSE /\ message' = [kind |-> kind, uuid |-> 0, payload |-> <<>>]
               /\ receiver_pc' = "recv"
    /\ UNCHANGED <<now, awaiting_requests_storage, sender_vars,
                   total_received_messages_count, receiver_progress_lines,
                   removed, accepted>>

\* Mutant: a payload that does not decode falls through to the removal instead
\* of `continue`.
ReceiverLookup_DecodeFailureRemoves ==
    /\ receiver_pc = "lookup"
    /\ LET found == message.uuid \in DOMAIN awaiting_requests_storage
           payload == decode_message_payload(message.payload)
       IN IF ~found
          THEN /\ receiver_pc' = "recv"
               /\ UNCHANGED <<total_received_messages_count, accepted>>
          ELSE /\ receiver_pc' = "remove"
               /\ IF /\ payload.ok
                     /\ ResultMatches(awaiting_requests_storage[message.uuid],
                                      payload.result)
                  THEN /\ total_received_messages_count' =
                              total_received_messages_count + 1
                       /\ accepted' = accepted \cup {message.uuid}
                  ELSE UNCHANGED <<total_received_messages_count, accepted>>
    /\ UNCHANGED <<now, awaiting_requests_storage, sender_vars, message,
                   receiver_progress_lines, removed>>

\* The read of the storage, then payload decoding and the comparison.
ReceiverLookup ==
    /\ receiver_pc = "lookup"
    /\ LET found == message.uuid \in DOMAIN awaiting_requests_storage
           payload == decode_message_payload(message.payload)
       IN IF ~found \/ ~payload.ok
          THEN /\ receiver_pc' = "recv"
               /\ UNCHANGED <<total_received_messages_count, accepted>>
          ELSE /\ receiver_pc' = "remove"
               /\ IF ResultMatches(awaiting_requests_storage[message.uuid], payload.result)
                  THEN /\ total_received_messages_count' =
                              total_received_messages_count + 1
                       /\ accepted' = accepted \cup {message.uuid}
                  ELSE UNCHANGED <<total_received_messages_count, accepted>>
    /\ UNCHANGED <<now, awaiting_requests_storage, sender_vars, message,
                   receiver_progress_lines, removed>>

\* The write that removes the record, then the progress log.
ReceiverRemove ==
    /\ receiver_pc = "remove"
    /\ awaiting_requests_storage' = MapRemove(awaiting_requests_storage, message.uuid)
    /\ removed' = removed \cup {message.uuid}
    /\ receiver_progress_lines' =
          IF total_received_messages_count % REQUESTS_COUNT_INSIDE_ONE_GROUP = 0
          THEN receiver_progress_lines + 1
          ELSE receiver_progress_lines
    /\ receiver_pc' = "recv"
    /\ UNCHANGED <<now, sender_vars, message, total_received_messages_count, accepted>>

\* ------------------------------------------------------------------- Spec
Next ==
    \/ Tick
    \/ SenderCheck
    \/ SenderScan
    \/ SenderSend
    \/ SenderInsert
    \/ SenderGroupEnd
    \/ ReceiverRecv
    \/ ReceiverLookup
    \/ ReceiverRemove

Spec == Init /\ [][Next]_vars

\* The same program over the longer run of the clock.
NextPacing ==
    \/ TickPacing
    \/ SenderCheck
    \/ SenderScan
    \/ SenderSend
    \/ SenderInsert
    \/ SenderGroupEnd
    \/ ReceiverRecv
    \/ ReceiverLookup
    \/ ReceiverRemove

SpecPacing == Init /\ [][NextPacing]_vars

\* ------------------------------------------------------------ vocabulary
\* The resends of uuid u put on the sender socket so far.
Resends(u) == {i \in 1..Len(outbound) : outbound[i].uuid = u /\ outbound[i].is_resend}

\* uuid u has been put on the sender socket at least once.
Transmitted(u) == \E i \in 1..Len(outbound) : outbound[i].uuid = u

\* A step of the receiver that leaves the lookup (the read of the storage).
LookupStep == receiver_pc = "lookup" /\ receiver_pc' # "lookup"

\* A step of the receiver that leaves the removal (the write to the storage).
RemoveStep == receiver_pc = "remove" /\ receiver_pc' # "remove"

\* A step of the sender that leaves the scan.
ScanStep == sender_pc = "scan" /\ sender_pc' # "scan"

\* A step of the sender that leaves the insertion.
InsertStep == sender_pc = "insert" /\ sender_pc' # "insert"

\* ----------------------------------------------------------------- claims
\* C1: every record the scan found stale has been transmitted again, as a resend,
\* by the end of the dispatch cycle that scanned it. (The claim as stated.)
C1_StagedResentWithinCycle ==
    sender_pc = "group_end" =>
        \A u \in staged : Resends(u) # {}

\* C2: a matching response for a transmitted uuid, looked up within the resend
\* interval and before any other terminal response for it, is accepted: the
\* success counter counts it and the record is on its way out of the storage.
\* (The claim as stated, for the response's lookup.)
C2_MatchingResponseResolves ==
    [][(/\ LookupStep
        /\ now <= RESEND_REQUESTS_EVERY_DURATION
        /\ message.uuid \notin removed
        /\ \E i \in 1..Len(outbound) :
              /\ outbound[i].uuid = message.uuid
              /\ message.payload = <<outbound[i].value * outbound[i].multiplier>>)
       => (/\ message.uuid \in accepted'
           /\ total_received_messages_count' = total_received_messages_count + 1
           /\ receiver_pc' = "remove"
           /\ Resends(message.uuid) = {})]_vars

\* C3: at the end of the cycle whose scan found record Y older than the resend
\* interval, with no response for Y handled, Y is still in the storage with its
\* timestamp refreshed by the scan and exactly one resend of Y has been
\* transmitted. (The claim as stated.)
C3_OneResendAfterInterval ==
    sender_pc = "group_end" =>
        \A u \in staged :
            (u \notin removed /\ ~(receiver_pc = "remove" /\ message.uuid = u))
            => /\ u \in DOMAIN awaiting_requests_storage
               /\ awaiting_requests_storage[u].last_send_attempt_time = last_resend_check
               /\ Cardinality(Resends(u)) = 1

\* C4: a uuid the receiver has removed from the storage is never in the storage
\* again, whatever either loop does afterwards.
C4_NeverReinserted ==
    \A u \in removed : u \notin DOMAIN awaiting_requests_storage

\* C4 witness: a record was staged by the scan, then removed by the receiver, and
\* the sender went on to send and insert and reached the end of that cycle.
C4_Witness ==
    /\ sender_pc = "group_end"
    /\ \E u \in staged : u \in removed
    /\ DOMAIN awaiting_requests_storage # {}

\* C5: a message of another kind (or of no decodable kind), and a response whose
\* uuid is not in the storage at lookup, leave the storage and the success
\* counter as they were and lead to no removal.
C5_UnknownLeavesStoreAndCounter ==
    [][/\ (receiver_pc = "recv" /\ message' # message
              /\ message'.kind # ValueMultiplicationResponse)
           => /\ awaiting_requests_storage' = awaiting_requests_storage
              /\ total_received_messages_count' = total_received_messages_count
              /\ receiver_pc' = "recv"
       /\ (LookupStep /\ (\/ message.kind # ValueMultiplicationResponse
                          \/ message.uuid \notin DOMAIN awaiting_requests_storage))
           => /\ awaiting_requests_storage' = awaiting_requests_storage
              /\ total_received_messages_count' = total_received_messages_count
              /\ removed' = removed
              /\ receiver_pc' = "recv"
       /\ RemoveStep => message.kind = ValueMultiplicationResponse]_vars

\* C5 witness: the receiver has just handled a response whose uuid was never in
\* the storage, while the storage holds records and the counter is above zero.
C5_Witness ==
    /\ receiver_pc = "recv"
    /\ message.kind = ValueMultiplicationResponse
    /\ message.uuid \notin DOMAIN awaiting_requests_storage
    /\ message.uuid \notin removed
    /\ DOMAIN awaiting_requests_storage # {}
    /\ total_received_messages_count > 0

\* C6: a decoded response for a uuid in the storage whose result differs from the
\* stored expected_result leaves the success counter unchanged and goes on to the
\* removal; the removal takes the record out; a later response for a removed uuid
\* is handled as unknown.
C6_MismatchRemovesWithoutCounting ==
    [][/\ (LookupStep
              /\ message.uuid \in DOMAIN awaiting_requests_storage
              /\ decode_message_payload(message.payload).ok
              /\ decode_message_payload(message.payload).result
                    # awaiting_requests_storage[message.uuid].expected_result)
           => /\ total_received_messages_count' = total_received_messages_count
              /\ accepted' = accepted
              /\ receiver_pc' = "remove"
       /\ RemoveStep
           => /\ message.uuid \notin DOMAIN awaiting_requests_storage'
              /\ total_received_messages_count' = total_received_messages_count
       /\ (LookupStep /\ message.uuid \in removed)
           => /\ receiver_pc' = "recv"
              /\ total_received_messages_count' = total_received_messages_count]_vars

\* C6 witness: a later response is in the receiver's hands for a uuid that was
\* removed after a mismatching response.
C6_Witness ==
    /\ receiver_pc = "lookup"
    /\ message.uuid \in removed
    /\ message.uuid \notin accepted

\* C7: the success counter goes up, by one, exactly in a lookup of a message of
\* the response kind whose uuid is in the storage, whose payload decodes and
\* whose result equals the stored expected_result; no other step changes it.
C7_CounterIffValidResponse ==
    [][/\ total_received_messages_count' # total_received_messages_count
           => total_received_messages_count' = total_received_messages_count + 1
       /\ total_received_messages_count' # total_received_messages_count
           <=> (/\ LookupStep
                /\ message.kind = ValueMultiplicationResponse
                /\ message.uuid \in DOMAIN awaiting_requests_storage
                /\ decode_message_payload(message.payload).ok
                /\ decode_message_payload(message.payload).result
                      = awaiting_requests_storage[message.uuid].expected_result)]_vars

\* C7 witness: one response has been counted and another, mismatching one, has
\* resolved its record without being counted.
C7_Witness ==
    /\ total_received_messages_count > 0
    /\ accepted # {}
    /\ removed \ accepted # {}
    /\ receiver_pc = "recv"

\* C8: every record in the storage has expected_result = value * multiplier, and
\* the resend scan keeps the key set and every record's value, multiplier and
\* expected_result, changing last_send_attempt_time only.
C8_ExpectedResultFixed ==
    [][/\ \A u \in DOMAIN awaiting_requests_storage' :
              awaiting_requests_storage'[u].expected_result
                  = awaiting_requests_storage'[u].value
                        * awaiting_requests_storage'[u].multiplier
       /\ ScanStep
           => /\ DOMAIN awaiting_requests_storage' = DOMAIN awaiting_requests_storage
              /\ \A u \in DOMAIN awaiting_requests_storage :
                    /\ awaiting_requests_storage'[u].value
                          = awaiting_requests_storage[u].value
                    /\ awaiting_requests_storage'[u].multiplier
                          = awaiting_requests_storage[u].multiplier
                    /\ awaiting_requests_storage'[u].expected_result
                          = awaiting_requests_storage[u].expected_result]_vars

\* C8 witness: the scan has refreshed the timestamp of a stale record, next to a
\* record with other operands.
C8_Witness ==
    /\ sender_pc = "send"
    /\ \E u \in staged :
          /\ u \in DOMAIN awaiting_requests_storage
          /\ awaiting_requests_storage[u].last_send_attempt_time > 0
          /\ awaiting_requests_storage[u].last_send_attempt_time = last_resend_check
          /\ \E w \in DOMAIN awaiting_requests_storage :
                awaiting_requests_storage[w].expected_result
                    # awaiting_requests_storage[u].expected_result

\* C9: every uuid in the storage has been transmitted at least once and has not
\* been resolved (removed after a decoded response, matching or not).
C9_PresentMeansSentAndUnresolved ==
    \A u \in DOMAIN awaiting_requests_storage :
        /\ Transmitted(u)
        /\ u \notin removed

\* C9 witness: the storage holds a record while another uuid has been resolved.
C9_Witness ==
    /\ DOMAIN awaiting_requests_storage # {}
    /\ removed # {}
    /\ removed \ accepted # {}

\* C10: the key set of the storage grows only in the insertion that follows the
\* successful transmit of a new item, by that item's uuid alone, a uuid that was
\* never in the storage before; the scan (staging) and the handling of a resent
\* item leave the key set as it is.
C10_KeysGrowOnlyByNewInsert ==
    [][/\ ~(DOMAIN awaiting_requests_storage' \subseteq DOMAIN awaiting_requests_storage)
           => /\ InsertStep
              /\ ~current.is_resend
              /\ last_attempt = "sent"
              /\ outbound[Len(outbound)] = current
              /\ current.uuid \notin DOMAIN awaiting_requests_storage
              /\ current.uuid \notin removed
              /\ \A i \in 1..(Len(outbound) - 1) : outbound[i].uuid # current.uuid
              /\ DOMAIN awaiting_requests_storage'
                    = DOMAIN awaiting_requests_storage \cup {current.uuid}
       /\ ScanStep
           => DOMAIN awaiting_requests_storage' = DOMAIN awaiting_requests_storage
       /\ (InsertStep /\ current.is_resend)
           => awaiting_requests_storage' = awaiting_requests_storage]_vars

\* C10 witness: after a scan that staged a record, a new item has been sent and
\* inserted next to it.
C10_Witness ==
    /\ sender_pc = "group_end"
    /\ \E u \in staged :
          /\ u \in DOMAIN awaiting_requests_storage
          /\ current.uuid # u
          /\ current.uuid \in DOMAIN awaiting_requests_storage

\* C11: the scan stages a record only when strictly more than the resend interval
\* has passed since its last_send_attempt_time, and a record staged before is
\* staged again only when more than the interval has passed since that staging.
C11_ResendPacing ==
    [][ScanStep =>
          \A u \in Uuids :
             /\ u \in staged'
                 => /\ u \in DOMAIN awaiting_requests_storage
                    /\ now - awaiting_requests_storage[u].last_send_attempt_time
                          > RESEND_REQUESTS_EVERY_DURATION
             /\ staging_times'[u] # staging_times[u]
                 => /\ u \in staged'
                    /\ staging_times'[u] = Append(staging_times[u], now)
                    /\ Len(staging_times[u]) > 0
                        => now - staging_times[u][Len(staging_times[u])]
                              > RESEND_REQUESTS_EVERY_DURATION]_vars

\* C11 witness: a record has been staged a second time, next to a record that
\* the first scan left alone and the second scan staged.
C11_Witness ==
    /\ \E u \in Uuids : Len(staging_times[u]) >= 2
    /\ \E w \in Uuids :
          /\ Len(staging_times[w]) = 1
          /\ staging_times[w][1] > RESEND_REQUESTS_EVERY_DURATION + 1

\* A step of the sender that makes an attempt: takes a work item, encodes, sends.
AttemptStep ==
    /\ sender_pc = "send"
    /\ (minted' # minted \/ outbound' # outbound \/ failures' # failures)

\* The last attempt ended in an encode or a transmit failure.
FailedAttempt(outcome) == outcome \in {"encode_failed", "send_failed"}

C13_StagedBeforeNew ==
    [][(AttemptStep /\ ~current'.is_resend)
          => \A u \in staged :
                \/ Resends(u) # {}
                \/ (current.is_resend /\ current.uuid = u)]_vars

\* C14: the scan is one step. It refreshes last_send_attempt_time of exactly the
\* records older than the resend interval at that instant, leaves every other
\* record and the key set alone, stages exactly those records, each once, and
\* the receiver makes no move within it; no other step stages anything.
C14_ScanAtomicExactlyStale ==
    [][/\ ScanStep
           => /\ DOMAIN awaiting_requests_storage' = DOMAIN awaiting_requests_storage
              /\ \A u \in DOMAIN awaiting_requests_storage :
                    IF now - awaiting_requests_storage[u].last_send_attempt_time
                          > RESEND_REQUESTS_EVERY_DURATION
                    THEN /\ awaiting_requests_storage'[u].last_send_attempt_time = now
                         /\ u \in staged'
                         /\ staging_times'[u] = Append(staging_times[u], now)
                    ELSE /\ awaiting_requests_storage'[u] = awaiting_requests_storage[u]
                         /\ u \notin staged'
                         /\ staging_times'[u] = staging_times[u]
              /\ staged' \subseteq DOMAIN awaiting_requests_storage
              /\ receiver_vars' = receiver_vars
       /\ (staging_times' # staging_times \/ (staged' # staged /\ staged' # {}))
           => ScanStep]_vars

\* C14 witness: a scan has just staged a stale record and left a younger one
\* alone, while the receiver holds a response it found for the staged record
\* and has not yet removed it.
C14_Witness ==
    /\ sender_pc = "send"
    /\ last_resend_check = now
    /\ staged # {}
    /\ \E w \in DOMAIN awaiting_requests_storage :
          /\ w \notin staged
          /\ awaiting_requests_storage[w].last_send_attempt_time < now
    /\ receiver_pc = "remove"
    /\ message.uuid \in staged

\* C15: a response whose uuid is in the storage but whose payload does not
\* decode is dropped: the lookup step leaves the storage (key set, operands and
\* timestamps), the counter, the progress lines and the history alone and goes
\* back to receiving, so the record is still there for the next scan.
C15_UndecodablePayloadDropped ==
    [][(/\ LookupStep
        /\ message.uuid \in DOMAIN awaiting_requests_storage
        /\ ~decode_message_payload(message.payload).ok)
          => /\ receiver_pc' = "recv"
             /\ awaiting_requests_storage' = awaiting_requests_storage
             /\ total_received_messages_count' = total_received_messages_count
             /\ receiver_progress_lines' = receiver_progress_lines
             /\ removed' = removed
             /\ accepted' = accepted]_vars

\* C15 witness: the receiver is at the lookup with a response of undecodable
\* payload for a record that is in the storage and that a scan has claimed.
C15_Witness ==
    /\ receiver_pc = "lookup"
    /\ message.kind = ValueMultiplicationResponse
    /\ message.uuid \in DOMAIN awaiting_requests_storage
    /\ ~decode_message_payload(message.payload).ok
    /\ Len(staging_times[message.uuid]) > 0

\* C16: a key leaves the storage only in the receiver's removal step, and it is
\* the uuid of the response in hand, whose kind and payload decoded and whose
\* uuid was found; no sender step and no clock step shrinks the key set.
C16_OnlyReceiverRemoves ==
    [][\A u \in DOMAIN awaiting_requests_storage :
          u \notin DOMAIN awaiting_requests_storage'
             => /\ RemoveStep
                /\ message.uuid = u
                /\ IsExpectedKind(message.kind)
                /\ decode_message_payload(message.payload).ok
                /\ sender_vars' = sender_vars]_vars

\* C16 witness: a record staged by two scans is still in the storage, while
\* another record has been removed by the receiver.
C16_Witness ==
    /\ \E u \in DOMAIN awaiting_requests_storage : Len(staging_times[u]) >= 2
    /\ removed # {}

\* C17: a receiver progress line is written only by a response that incremented
\* the confirmed counter, one line, and only when the counter has reached a
\* positive multiple of the group size. (The claim as stated.)
C17_ProgressLineOnlyOnIncrement ==
    [][receiver_progress_lines' # receiver_progress_lines
          => /\ receiver_progress_lines' = receiver_progress_lines + 1
             /\ message.uuid \in accepted
             /\ total_received_messages_count > 0
             /\ total_received_messages_count % REQUESTS_COUNT_INSIDE_ONE_GROUP = 0]_vars

C19_AtMostOncePerUuid ==
    [][/\ total_received_messages_count' # total_received_messages_count
           => /\ total_received_messages_count' = total_received_messages_count + 1
              /\ message.uuid \notin accepted
              /\ message.uuid \notin removed
              /\ accepted' = accepted \cup {message.uuid}
       /\ RemoveStep
           => /\ message.uuid \notin removed
              /\ message.uuid \in DOMAIN awaiting_requests_storage
              /\ message.uuid \notin DOMAIN awaiting_requests_storage'
       /\ total_received_messages_count' = Cardinality(accepted')
       /\ accepted' \subseteq removed' \cup {message'.uuid}]_vars

\* C19 witness: a second response with the right result for a uuid that has
\* already been counted and removed is at the lookup, while another request is
\* on the wire and not yet inserted.
C19_Witness ==
    /\ receiver_pc = "lookup"
    /\ message.uuid \in accepted
    /\ message.uuid \in removed
    /\ \E i \in 1..Len(outbound) :
          /\ outbound[i].uuid = message.uuid
          /\ message.payload = <<outbound[i].value * outbound[i].multiplier>>
    /\ sender_pc = "insert"

\* C20: a uuid is never on the wire with two different payloads, and every
\* message on the wire with the uuid of a stored record carries that record's
\* operands.
C20_OneUuidOnePayload ==
    /\ \A i, j \in 1..Len(outbound) :
          outbound[i].uuid = outbound[j].uuid
             => /\ outbound[i].value = outbound[j].value
                /\ outbound[i].multiplier = outbound[j].multiplier
    /\ \A u \in DOMAIN awaiting_requests_storage :
          \A i \in 1..Len(outbound) :
             outbound[i].uuid = u
                => /\ outbound[i].value = awaiting_requests_storage[u].value
                   /\ outbound[i].multiplier = awaiting_requests_storage[u].multiplier

\* C20 witness: two stored records with different operands, both transmitted,
\* one of them claimed by a scan.
C20_Witness ==
    \E u, w \in DOMAIN awaiting_requests_storage :
       /\ awaiting_requests_storage[u].value # awaiting_requests_storage[w].value
       /\ Transmitted(u)
       /\ Transmitted(w)
       /\ u \in staged

====
